---- MODULE Spec2Model ----
(***************************************************************************)
(* Model of small_crypto: the Collector job (scripts/collect_data.py) and  *)
(* the Analyzer job (scripts/analyze_data.py).                             *)
(*                                                                         *)
(* Spec          the Collector: create_database, fetch_crypto_data with    *)
(*               its retry loop, store_data, and main's try/except/finally *)
(* SpecAnalyzer  the Analyzer: load_data, clean_data, analyze_data, main   *)
(***************************************************************************)
EXTENDS Integers, Sequences, FiniteSets, TLC

VARIABLES
    \* ---- Collector ----
    pc,           \* position of collect_data.main
    db,           \* committed contents of data/crypto_data.db: coin -> set of rows
    txn,          \* what the open connection sees: db plus its uncommitted writes
    openConns,    \* connections opened by the run and not closed
    connBound,    \* main's local `conn` is bound (create_database returned)
    created,      \* create_database returned normally in this run
    coinIdx,      \* index into coins of the asset being processed
    attempt,      \* `attempt` of the active fetch_crypto_data call's loop, 0 when none is active
    attemptLog,   \* outcomes of the failed requests of the current fetch_crypto_data call
    attempted,    \* coins whose fetch_crypto_data call began in this run
    fetchStatus,  \* coin -> how its fetch_crypto_data call ended
    data,         \* main's local `data`: what fetch_crypto_data returned
    storeStatus,  \* coin -> how its store_data call ended
    outcome,      \* how main ended
    preStore,     \* coin -> its table when its failed store_data call began
    postStore,    \* coin -> its table when its store_data call committed
    failedAfter,  \* rows the failed store_data call had written, -1 if none failed
    lastWrite,    \* coin -> (date -> the row most recently committed for that date)
    \* ---- Analyzer ----
    apc,          \* position of analyze_data.main
    tables,       \* the stored tables, rows in the order SELECT * returns them
    btc_df,       \* main's btc_df
    eth_df,       \* main's eth_df
    btc_raw,      \* btc_df as load_data returned it
    eth_raw,      \* eth_df as load_data returned it
    analysis,     \* what analyze_data returned
    aerror,       \* the exception that ended analyze_data.main
    araisedBy,    \* the function that raised it
    aConns        \* connections opened by the Analyzer run and not closed

cvars == <<pc, db, txn, openConns, connBound, created, coinIdx, attempt,
           attemptLog, attempted, fetchStatus, data, storeStatus, outcome, preStore,
           postStore, failedAfter, lastWrite>>
avars == <<apc, tables, btc_df, eth_df, btc_raw, eth_raw, analysis, aerror,
           araisedBy, aConns>>
vars == <<cvars, avars>>

(***************************************************************************)
(* Bounds                                                                  *)
(***************************************************************************)
MaxLen == 2        \* entries in one market_chart response
MaxRows == 3       \* rows of the bitcoin table the Analyzer reads
MaxEthRows == 1    \* rows of the ethereum table the Analyzer reads

(***************************************************************************)
(* Collector: constants and data                                           *)
(***************************************************************************)
coins == <<"bitcoin", "ethereum">>
Coins == {coins[i] : i \in 1..Len(coins)}
max_retries == 3
MsPerSecond == 1000
SecondsPerDay == 86400

Min(a, b) == IF a <= b THEN a ELSE b

\* the host's local time is UTC
LocalUtcOffset == 0

\* midnight and noon of the first day, midnight of the second
Timestamps == {k * ((SecondsPerDay * MsPerSecond) \div 2) : k \in 0..2}

\* the values one day's entry carries: (price, volume, market_cap)
Quotes == {<<1, 3, 5>>, <<2, 4, 6>>}

SeqsUpTo(S, n) == UNION {[1..k -> S] : k \in 0..n}

Entries == Timestamps \X Quotes

\* a market_chart response: three arrays of [timestamp_ms, value], aligned by index
Chart(es) ==
    [kind |-> "chart",
     prices        |-> [i \in 1..Len(es) |-> <<es[i][1], es[i][2][1]>>],
     total_volumes |-> [i \in 1..Len(es) |-> <<es[i][1], es[i][2][2]>>],
     market_caps   |-> [i \in 1..Len(es) |-> <<es[i][1], es[i][2][3]>>]]

Charts == {Chart(es) : es \in SeqsUpTo(Entries, MaxLen)}
EmptyJson == [kind |-> "empty", prices |-> <<>>, total_volumes |-> <<>>, market_caps |-> <<>>]
None == [kind |-> "none", prices |-> <<>>, total_volumes |-> <<>>, market_caps |-> <<>>]

\* Python truthiness of main's `if data:`: None and {} are false
Truthy(d) == d.kind = "chart"

\* days since the epoch -> the (year, month, day) that strftime('%Y-%m-%d') prints
CivilFromDays(days) ==
    LET z   == days + 719468
        era == z \div 146097
        doe == z - era * 146097
        yoe == (doe - doe \div 1460 + doe \div 36524 - doe \div 146096) \div 365
        doy == doe - (365 * yoe + yoe \div 4 - yoe \div 100)
        mp  == (5 * doy + 2) \div 153
        d   == doy - (153 * mp + 2) \div 5 + 1
        m   == IF mp < 10 THEN mp + 3 ELSE mp - 9
        y   == yoe + era * 400 + (IF m <= 2 THEN 1 ELSE 0)
    IN  <<y, m, d>>

\* datetime.fromtimestamp(timestamp_ms / 1000).strftime('%Y-%m-%d') in local time
DateOf(timestamp_ms) ==
    CivilFromDays(((timestamp_ms \div MsPerSecond) + LocalUtcOffset) \div SecondsPerDay)

\* zip(data['prices'], data['total_volumes'], data['market_caps'])
ZipLen(d) == Min(Len(d.prices), Min(Len(d.total_volumes), Len(d.market_caps)))

\* the parameters (date, value, volume[1], market_cap[1]) of the i-th INSERT
RowOf(d, i) ==
    [date       |-> DateOf(d.prices[i][1]),
     price      |-> d.prices[i][2],
     volume     |-> d.total_volumes[i][2],
     market_cap |-> d.market_caps[i][2]]

\* an INSERT that adds the row and leaves a row of the same date in place
InsertPlain(table, row) == table \cup {row}

\* INSERT OR REPLACE INTO table ... with date the PRIMARY KEY
InsertOrReplace(table, row) ==
    {r \in table : r.date # row.date} \cup {row}

\* the first k iterations of store_data's loop
RECURSIVE StoreRows(_, _, _)
StoreRows(table, d, k) ==
    IF k = 0 THEN table
    ELSE InsertOrReplace(StoreRows(table, d, k - 1), RowOf(d, k))

\* a close that commits the pending transaction
CloseKeepsPending(committed, pending) == pending

\* conn.close() without a commit: the pending transaction is rolled back
AfterClose(committed, pending) == committed

\* a handler that gives up on the first attempt
RaisesOnFirst(a) == a = 0

\* the test `attempt == max_retries - 1` of the RequestException handler
IsLastAttempt(a) == a = max_retries - 1

Coin == coins[coinIdx]

EmptyTables == [c \in Coins |-> {}]

\* the row the last entry of response d for date dt carries
LastRowFor(d, dt) ==
    LET idx  == {i \in 1..ZipLen(d) : DateOf(d.prices[i][1]) = dt}
        last == CHOOSE i \in idx : \A j \in idx : j <= i
    IN  RowOf(d, last)

DatesIn(d) == {DateOf(d.prices[i][1]) : i \in 1..ZipLen(d)}

\* the record of committed writes after response d: its dates map to their last entry
Recorded(lw, d) ==
    [dt \in DOMAIN lw \cup DatesIn(d) |->
        IF dt \in DatesIn(d) THEN LastRowFor(d, dt) ELSE lw[dt]]

(***************************************************************************)
(* Analyzer: numbers.  A float is an exact fraction <<n, d>> in lowest     *)
(* terms with d > 0; NaN is <<0, 0>>.                                      *)
(***************************************************************************)
NaN == <<0, 0>>
IsNaN(x) == x[2] = 0
Abs(n) == IF n < 0 THEN -n ELSE n

RECURSIVE GCD(_, _)
GCD(a, b) == IF b = 0 THEN a ELSE GCD(b, a % b)

Frac(n, d) ==
    IF d = 0 THEN NaN
    ELSE LET sn == IF d < 0 THEN -n ELSE n
             sd == Abs(d)
             g  == GCD(Abs(sn), sd)
         IN  <<sn \div g, sd \div g>>

Num(n) == <<n, 1>>
RAdd(x, y) == IF IsNaN(x) \/ IsNaN(y) THEN NaN ELSE Frac(x[1] * y[2] + y[1] * x[2], x[2] * y[2])
RSub(x, y) == IF IsNaN(x) \/ IsNaN(y) THEN NaN ELSE Frac(x[1] * y[2] - y[1] * x[2], x[2] * y[2])
RMul(x, y) == IF IsNaN(x) \/ IsNaN(y) THEN NaN ELSE Frac(x[1] * y[1], x[2] * y[2])
RDiv(x, y) == IF IsNaN(x) \/ IsNaN(y) THEN NaN ELSE Frac(x[1] * y[2], x[2] * y[1])

\* x > 0 and x <= 0 as floats compare: both are false of NaN
Positive(x) == ~IsNaN(x) /\ x[1] > 0
NonPositive(x) == ~IsNaN(x) /\ x[1] <= 0

(***************************************************************************)
(* Analyzer: clean_data.  A frame is a sequence of rows [date, price,      *)
(* volume]; market_cap is interpolated like the other two columns and read *)
(* by nothing else, and is left out.                                       *)
(***************************************************************************)
Column(df, f) == [i \in 1..Len(df) |-> df[i][f]]

\* df.isnull().any().any()
AnyNull(df) == \E i \in 1..Len(df) : IsNaN(df[i].price) \/ IsNaN(df[i].volume)

\* Series.interpolate(method='linear', limit_direction='both') on the default
\* RangeIndex: rows are equally spaced in their order in the frame; a gap is
\* filled on the line between its neighbours, a leading or trailing gap with
\* the nearest value, a column with no value stays NaN
InterpolateColumn(col) ==
    [i \in 1..Len(col) |->
        IF ~IsNaN(col[i]) THEN col[i]
        ELSE LET before == {j \in 1..(i - 1) : ~IsNaN(col[j])}
                 after  == {j \in (i + 1)..Len(col) : ~IsNaN(col[j])}
             IN  IF before = {} /\ after = {} THEN NaN
                 ELSE IF before = {} THEN col[CHOOSE j \in after : \A k \in after : j <= k]
                 ELSE IF after = {} THEN col[CHOOSE j \in before : \A k \in before : j >= k]
                 ELSE LET a == CHOOSE j \in before : \A k \in before : j >= k
                          b == CHOOSE j \in after : \A k \in after : j <= k
                      IN  RAdd(col[a],
                               RMul(RSub(col[b], col[a]), Frac(i - a, b - a)))]

\* df.interpolate(method='linear', limit_direction='both')
Interpolate(df) ==
    LET p == InterpolateColumn(Column(df, "price"))
        v == InterpolateColumn(Column(df, "volume"))
    IN  [i \in 1..Len(df) |-> [date |-> df[i].date, price |-> p[i], volume |-> v[i]]]

\* (df['price'] <= 0).any() or (df['volume'] <= 0).any()
AnyAnomaly(df) ==
    \E i \in 1..Len(df) : NonPositive(df[i].price) \/ NonPositive(df[i].volume)

\* df[(df['price'] > 0) & (df['volume'] > 0)]
KeepPositive(df) == SelectSeq(df, LAMBDA r : Positive(r.price) /\ Positive(r.volume))

\* df.sort_values('date')
RECURSIVE SortByDate(_)
SortByDate(df) ==
    IF df = <<>> THEN <<>>
    ELSE LET m == CHOOSE i \in 1..Len(df) :
                     \A j \in 1..Len(df) :
                        df[i].date < df[j].date \/ (df[i].date = df[j].date /\ i <= j)
         IN  <<df[m]>> \o SortByDate(SubSeq(df, 1, m - 1) \o SubSeq(df, m + 1, Len(df)))

clean_data(df) ==
    LET filled   == IF AnyNull(df) THEN Interpolate(df) ELSE df
        filtered == IF AnyAnomaly(filled) THEN KeepPositive(filled) ELSE filled
    IN  SortByDate(filtered)

(***************************************************************************)
(* Analyzer: analyze_data                                                  *)
(***************************************************************************)
RECURSIVE SumSeq(_)
SumSeq(xs) == IF xs = <<>> THEN Num(0) ELSE RAdd(xs[1], SumSeq(Tail(xs)))

\* Series.mean() and Series.std(): NaN entries are skipped (skipna); the mean of
\* nothing is NaN, the sample deviation (ddof = 1) of fewer than two values is NaN
Valid(xs) == SelectSeq(xs, LAMBDA x : ~IsNaN(x))
Mean(xs) ==
    LET v == Valid(xs) IN IF v = <<>> THEN NaN ELSE RDiv(SumSeq(v), Num(Len(v)))
Variance(xs) ==
    LET v == Valid(xs)
        m == Mean(xs)
        sq == [i \in 1..Len(v) |-> RMul(RSub(v[i], m), RSub(v[i], m))]
    IN  IF Len(v) < 2 THEN NaN ELSE RDiv(SumSeq(sq), Num(Len(v) - 1))

\* the four metrics of one coin.  std() / mean() * 100 is carried as its
\* square, var / mean^2 * 100^2, which is NaN exactly when the metric is
Metrics(df) ==
    LET price == Column(df, "price")
        first == price[1]
        last  == price[Len(df)]
    IN  [mean_price       |-> Mean(price),
         volatility_sq    |-> RMul(RDiv(Variance(price), RMul(Mean(price), Mean(price))),
                                   Num(100 * 100)),
         price_change_pct |-> RMul(RDiv(RSub(last, first), first), Num(100)),
         avg_volume       |-> Mean(Column(df, "volume"))]

NoMetrics == [mean_price |-> NaN, volatility_sq |-> NaN, price_change_pct |-> NaN,
              avg_volume |-> NaN]
NoAnalysis == [done |-> FALSE, Bitcoin |-> NoMetrics, Ethereum |-> NoMetrics]

\* df['price'].iloc[-1] of an empty frame raises IndexError
RaisesIndexError(df) == df = <<>>

(***************************************************************************)
(* Collector: the run                                                      *)
(***************************************************************************)
\* main's and fetch_crypto_data's locals when no call is active
LocalsFresh ==
    /\ coinIdx = 1
    /\ attempt = 0
    /\ attemptLog = <<>>
    /\ data = None

CollectorIdle ==
    /\ pc = "idle"
    /\ txn = db
    /\ openConns = 0
    /\ connBound = FALSE
    /\ created = FALSE
    /\ LocalsFresh
    /\ attempted = {}
    /\ fetchStatus = [c \in Coins |-> "none"]
    /\ storeStatus = [c \in Coins |-> "none"]
    /\ outcome = "none"
    /\ preStore = EmptyTables
    /\ postStore = EmptyTables
    /\ failedAfter = -1

AnalyzerIdle ==
    /\ apc = "idle"
    /\ tables = [c \in Coins |-> <<>>]
    /\ btc_df = <<>>
    /\ eth_df = <<>>
    /\ btc_raw = <<>>
    /\ eth_raw = <<>>
    /\ analysis = NoAnalysis
    /\ aerror = "none"
    /\ araisedBy = "none"
    /\ aConns = 0

Init ==
    /\ db = EmptyTables
    /\ lastWrite = [c \in Coins |-> <<>>]
    /\ CollectorIdle
    /\ AnalyzerIdle

\* a new process runs main(): its locals are fresh, the database file is kept
StartRun ==
    /\ pc \in {"idle", "done"}
    /\ pc' = "create"
    /\ txn' = db
    /\ openConns' = 0
    /\ connBound' = FALSE
    /\ created' = FALSE
    /\ attempted' = {}
    /\ fetchStatus' = [c \in Coins |-> "none"]
    /\ storeStatus' = [c \in Coins |-> "none"]
    /\ outcome' = "none"
    /\ preStore' = EmptyTables
    /\ postStore' = EmptyTables
    /\ failedAfter' = -1
    /\ UNCHANGED <<db, lastWrite, coinIdx, attempt, attemptLog, data, avars>>

\* create_database: connect, CREATE TABLE IF NOT EXISTS twice, commit, return conn
CreateDatabaseOk ==
    /\ pc = "create"
    /\ openConns' = openConns + 1
    /\ connBound' = TRUE
    /\ created' = TRUE
    /\ pc' = "fetch"
    /\ UNCHANGED <<db, txn, coinIdx, attempt, attemptLog, attempted, fetchStatus,
                   data, storeStatus, outcome, preStore, postStore, failedAfter, lastWrite, avars>>

\* sqlite3.connect raises: no connection exists, main's conn stays unbound
CreateDatabaseConnectFails ==
    /\ pc = "create"
    /\ pc' = "except"
    /\ UNCHANGED <<db, txn, openConns, connBound, created, coinIdx, attempt,
                   attemptLog, attempted, fetchStatus, data, storeStatus, outcome,
                   preStore, postStore, failedAfter, lastWrite, avars>>

\* cursor.execute or conn.commit raises after connect: the handler logs and
\* re-raises, the connection is never returned and never closed
CreateDatabaseExecuteFails ==
    /\ pc = "create"
    /\ openConns' = openConns + 1
    /\ pc' = "except"
    /\ UNCHANGED <<db, txn, connBound, created, coinIdx, attempt, attemptLog,
                   attempted, fetchStatus, data, storeStatus, outcome, preStore,
                   postStore, failedAfter, lastWrite, avars>>

\* one requests.get of the current call fails, with outcome o
Issued(o) ==
    /\ attemptLog' = Append(attemptLog, o)
    /\ attempted' = attempted \cup {Coin}

\* requests.get succeeds, raise_for_status passes, response.json() is returned
\* (the failures the call had retried are history); main then tests `if data:`
RequestOk ==
    /\ pc = "fetch"
    /\ attemptLog' = <<>>
    /\ attempted' = attempted \cup {Coin}
    /\ attempt' = 0
    /\ \E d \in Charts \cup {EmptyJson} :
          /\ data' = d
          /\ pc' = IF Truthy(d) THEN "store" ELSE "sleep"
    /\ fetchStatus' = [fetchStatus EXCEPT ![Coin] = "returned"]
    /\ UNCHANGED <<db, txn, openConns, connBound, created, coinIdx,
                   storeStatus, outcome, preStore, postStore, failedAfter, lastWrite, avars>>

\* HTTPError with status 429: warn, sleep, continue; when the loop is
\* exhausted the function falls through to `return None`
RequestRateLimited ==
    /\ pc = "fetch"
    /\ Issued("429")
    /\ IF attempt + 1 < max_retries
          THEN /\ attempt' = attempt + 1
               /\ UNCHANGED <<pc, fetchStatus, data>>
          ELSE /\ fetchStatus' = [fetchStatus EXCEPT ![Coin] = "returned_none"]
               /\ data' = None
               /\ pc' = "sleep"
               /\ attempt' = 0
    /\ UNCHANGED <<db, txn, openConns, connBound, created, coinIdx,
                   storeStatus, outcome, preStore, postStore, failedAfter, lastWrite, avars>>

\* HTTPError with any other status: log and raise
RequestHttpError ==
    /\ pc = "fetch"
    /\ Issued("http")
    /\ fetchStatus' = [fetchStatus EXCEPT ![Coin] = "raised"]
    /\ pc' = "except"
    /\ attempt' = 0
    /\ UNCHANGED <<db, txn, openConns, connBound, created, coinIdx,
                   data, storeStatus, outcome, preStore, postStore, failedAfter, lastWrite, avars>>

\* any other RequestException: log; raise on the last attempt, else sleep and loop
RequestNetworkError ==
    /\ pc = "fetch"
    /\ Issued("net")
    /\ IF IsLastAttempt(attempt)
          THEN /\ fetchStatus' = [fetchStatus EXCEPT ![Coin] = "raised"]
               /\ pc' = "except"
               /\ attempt' = 0
          ELSE /\ attempt' = attempt + 1
               /\ UNCHANGED <<pc, fetchStatus>>
    /\ UNCHANGED <<db, txn, openConns, connBound, created, coinIdx, data,
                   storeStatus, outcome, preStore, postStore, failedAfter, lastWrite, avars>>

\* store_data runs its whole loop and commits
StoreDataOk ==
    /\ pc = "store"
    /\ txn' = [txn EXCEPT ![Coin] = StoreRows(@, data, ZipLen(data))]
    /\ db' = txn'
    /\ postStore' = [postStore EXCEPT ![Coin] = txn'[Coin]]
    /\ lastWrite' = [lastWrite EXCEPT ![Coin] = Recorded(@, data)]
    /\ storeStatus' = [storeStatus EXCEPT ![Coin] = "stored"]
    /\ pc' = "sleep"
    /\ UNCHANGED <<openConns, connBound, created, coinIdx, attempt, attemptLog,
                   attempted, fetchStatus, data, outcome, preStore, failedAfter, avars>>

\* sqlite3.Error after k rows were written (k = ZipLen: conn.commit raises):
\* the handler logs and re-raises, nothing is committed
StoreDataFails ==
    /\ pc = "store"
    /\ \E k \in 0..ZipLen(data) :
          /\ txn' = [txn EXCEPT ![Coin] = StoreRows(@, data, k)]
          /\ failedAfter' = k
    /\ preStore' = [preStore EXCEPT ![Coin] = db[Coin]]
    /\ storeStatus' = [storeStatus EXCEPT ![Coin] = "failed"]
    /\ pc' = "except"
    /\ UNCHANGED <<db, openConns, connBound, created, coinIdx, attempt, attemptLog,
                   attempted, fetchStatus, data, outcome, postStore, lastWrite, avars>>

\* time.sleep(1) and the next iteration of `for coin in coins`
NextCoin ==
    /\ pc = "sleep"
    /\ coinIdx < Len(coins)
    /\ coinIdx' = coinIdx + 1
    /\ attempt' = 0
    /\ attemptLog' = <<>>
    /\ data' = None
    /\ pc' = "fetch"
    /\ UNCHANGED <<db, txn, openConns, connBound, created, attempted, fetchStatus,
                   storeStatus, outcome, preStore, postStore, failedAfter, lastWrite, avars>>

\* main returns or raises: its locals are gone
LocalsDropped ==
    /\ coinIdx' = 1
    /\ attempt' = 0
    /\ attemptLog' = <<>>
    /\ data' = None

\* conn.close() in main's finally
ConnClose ==
    /\ openConns' = openConns - 1
    /\ txn' = [c \in Coins |-> AfterClose(db[c], txn[c])]
    /\ db' = txn'

\* the loop ends: "Data collection completed successfully", then finally: conn.close()
MainCompletes ==
    /\ pc = "sleep"
    /\ coinIdx = Len(coins)
    /\ outcome' = "success"
    /\ ConnClose
    /\ LocalsDropped
    /\ pc' = "done"
    /\ UNCHANGED <<connBound, created, attempted, fetchStatus, storeStatus,
                   preStore, postStore, failedAfter, lastWrite, avars>>

\* except Exception: log and re-raise; finally: conn.close(), which itself
\* raises UnboundLocalError when create_database did not return
MainFails ==
    /\ pc = "except"
    /\ outcome' = "failed"
    /\ IF connBound
          THEN ConnClose
          ELSE UNCHANGED <<openConns, txn, db>>
    /\ LocalsDropped
    /\ pc' = "done"
    /\ UNCHANGED <<connBound, created, attempted, fetchStatus, storeStatus,
                   preStore, postStore, failedAfter, lastWrite, avars>>

(***************************************************************************)
(* Analyzer: the run                                                       *)
(***************************************************************************)
\* what a stored REAL column can hold: NULL, zero or a positive number
StoredPrices == {NaN, Num(0), Num(10), Num(30)}
StoredVolumes == {NaN, Num(0), Num(5)}
EthPrices == {Num(0), Num(20)}

\* tables in the order SELECT * returns their rows: one row per date (the
\* PRIMARY KEY), in any order (an INSERT OR REPLACE moves the row to the end)
TablesOf(n, ps, vs) ==
    {t \in SeqsUpTo([date : 1..n, price : ps, volume : vs], n) :
        \A i, j \in 1..Len(t) : t[i].date = t[j].date => i = j}

InitAnalyzer ==
    /\ db = EmptyTables
    /\ lastWrite = [c \in Coins |-> <<>>]
    /\ CollectorIdle
    /\ apc = "load"
    /\ \E b \in TablesOf(MaxRows, StoredPrices, StoredVolumes),
          e \in TablesOf(MaxEthRows, EthPrices, {Num(5)}) :
          tables = [c \in Coins |-> IF c = "bitcoin" THEN b ELSE e]
    /\ btc_df = <<>>
    /\ eth_df = <<>>
    /\ btc_raw = <<>>
    /\ eth_raw = <<>>
    /\ analysis = NoAnalysis
    /\ aerror = "none"
    /\ araisedBy = "none"
    /\ aConns = 0

\* load_data: connect, read both tables, close, return the frames
LoadDataOk ==
    /\ apc = "load"
    /\ btc_raw' = tables["bitcoin"]
    /\ eth_raw' = tables["ethereum"]
    /\ btc_df' = btc_raw'
    /\ eth_df' = eth_raw'
    /\ apc' = "clean_btc"
    /\ UNCHANGED <<tables, analysis, aerror, araisedBy, aConns, cvars>>

\* sqlite3.connect raises: no connection exists
LoadDataConnectFails ==
    /\ apc = "load"
    /\ aerror' = "OperationalError"
    /\ araisedBy' = "load_data"
    /\ apc' = "failed"
    /\ UNCHANGED <<tables, btc_df, eth_df, btc_raw, eth_raw, analysis, aConns, cvars>>

\* read_sql_query raises (a table is missing, the file is no database): the
\* conn.close() after the reads is skipped
LoadDataReadFails ==
    /\ apc = "load"
    /\ aConns' = aConns + 1
    /\ aerror' = "DatabaseError"
    /\ araisedBy' = "load_data"
    /\ apc' = "failed"
    /\ UNCHANGED <<tables, btc_df, eth_df, btc_raw, eth_raw, analysis, cvars>>

\* btc_df = clean_data(btc_df, 'Bitcoin')
CleanBitcoin ==
    /\ apc = "clean_btc"
    /\ btc_df' = clean_data(btc_df)
    /\ apc' = "clean_eth"
    /\ UNCHANGED <<tables, eth_df, btc_raw, eth_raw, analysis, aerror, araisedBy,
                   aConns, cvars>>

\* eth_df = clean_data(eth_df, 'Ethereum')
CleanEthereum ==
    /\ apc = "clean_eth"
    /\ eth_df' = clean_data(eth_df)
    /\ apc' = "analyze"
    /\ UNCHANGED <<tables, btc_df, btc_raw, eth_raw, analysis, aerror, araisedBy,
                   aConns, cvars>>

\* analyze_data: the metrics loop raises IndexError on the first empty frame;
\* otherwise the metrics are computed, the weekday query runs on a connection
\* of its own, which is closed, and the analysis is returned
AnalyzeDataOk ==
    /\ apc = "analyze"
    /\ ~RaisesIndexError(btc_df)
    /\ ~RaisesIndexError(eth_df)
    /\ analysis' = [done |-> TRUE, Bitcoin |-> Metrics(btc_df), Ethereum |-> Metrics(eth_df)]
    /\ apc' = "report"
    /\ UNCHANGED <<tables, btc_df, eth_df, btc_raw, eth_raw, aerror, araisedBy,
                   aConns, cvars>>

AnalyzeDataIndexError ==
    /\ apc = "analyze"
    /\ RaisesIndexError(btc_df) \/ RaisesIndexError(eth_df)
    /\ aerror' = "IndexError"
    /\ araisedBy' = "analyze_data"
    /\ apc' = "failed"
    /\ UNCHANGED <<tables, btc_df, eth_df, btc_raw, eth_raw, analysis, aConns, cvars>>

\* the weekday query raises: the conn.close() after it is skipped
AnalyzeDataQueryFails ==
    /\ apc = "analyze"
    /\ ~RaisesIndexError(btc_df)
    /\ ~RaisesIndexError(eth_df)
    /\ aConns' = aConns + 1
    /\ aerror' = "DatabaseError"
    /\ araisedBy' = "analyze_data"
    /\ apc' = "failed"
    /\ UNCHANGED <<tables, btc_df, eth_df, btc_raw, eth_raw, analysis, cvars>>

\* visualize_data, export_to_excel, generate_report, "completed successfully"
ReportWritten ==
    /\ apc = "report"
    /\ apc' = "done"
    /\ UNCHANGED <<tables, btc_df, eth_df, btc_raw, eth_raw, analysis, aerror,
                   araisedBy, aConns, cvars>>

NextAnalyzer ==
    \/ LoadDataOk
    \/ LoadDataConnectFails
    \/ LoadDataReadFails
    \/ CleanBitcoin
    \/ CleanEthereum
    \/ AnalyzeDataOk
    \/ AnalyzeDataIndexError
    \/ AnalyzeDataQueryFails
    \/ ReportWritten

SpecAnalyzer == InitAnalyzer /\ [][NextAnalyzer]_vars

Next ==
    \/ StartRun
    \/ CreateDatabaseOk
    \/ CreateDatabaseConnectFails
    \/ CreateDatabaseExecuteFails
    \/ RequestOk
    \/ RequestRateLimited
    \/ RequestHttpError
    \/ RequestNetworkError
    \/ StoreDataOk
    \/ StoreDataFails
    \/ NextCoin
    \/ MainCompletes
    \/ MainFails

Spec == Init /\ [][Next]_vars

(***************************************************************************)
(* Claims                                                                  *)
(***************************************************************************)
\* the fetch_crypto_data call of the current coin has ended without data and
\* main has not yet moved on
FetchEnded ==
    /\ pc \in {"sleep", "except"}
    /\ fetchStatus[Coin] \in {"raised", "returned_none"}

Transient(o) == o \in {"429", "net"}

\* C1: each asset table holds at most one row per date, the row of a date is
\* the one most recently written for it, and storing a series a second time
\* leaves the table as storing it once did.
C1_UpsertLastWriteWins ==
    \A c \in Coins :
        /\ \A r1, r2 \in db[c] : r1.date = r2.date => r1 = r2
        /\ \A r1, r2 \in txn[c] : r1.date = r2.date => r1 = r2
        /\ {r.date : r \in db[c]} = DOMAIN lastWrite[c]
        /\ \A r \in db[c] : lastWrite[c][r.date] = r
        /\ pc \in {"idle", "done"} =>
              \A d \in Charts :
                 LET once == StoreRows(db[c], d, ZipLen(d))
                 IN  StoreRows(once, d, ZipLen(d)) = once

\* a response with two entries of one date and different values was stored,
\* and the table holds the second
C1_Witness ==
    /\ pc = "sleep"
    /\ storeStatus[Coin] = "stored"
    /\ ZipLen(data) = 2
    /\ DateOf(data.prices[1][1]) = DateOf(data.prices[2][1])
    /\ data.prices[1][2] # data.prices[2][2]
    /\ db[Coin] = {RowOf(data, 2)}

\* C2: a fetch_crypto_data call whose every attempt failed with a 429 or a
\* network failure issued exactly max_retries requests and raised.
C2_RetryCeilingRaises ==
    (FetchEnded /\ \A i \in 1..Len(attemptLog) : Transient(attemptLog[i])) =>
        /\ Len(attemptLog) = max_retries
        /\ fetchStatus[Coin] = "raised"

\* C3 as stated: an error that is not a rate-limit signal is surfaced only
\* once max_retries attempts were made.
C3_SurfacedOnlyAtCeiling ==
    (FetchEnded /\ fetchStatus[Coin] = "raised") => Len(attemptLog) = max_retries

\* C3 as amended: a network failure (a RequestException that is no HTTP error
\* response) on an attempt before the last is retried, and on the last attempt
\* is raised; an HTTP error response whose status is not 429 is raised on the
\* attempt on which it occurs, without a retry.
C3_NetworkRetriedHttpRaised ==
    pc \in {"fetch", "sleep", "except"} =>
        \A i \in 1..Len(attemptLog) :
            /\ (attemptLog[i] = "net" /\ i < max_retries) =>
                  \/ i < Len(attemptLog)
                  \/ pc = "fetch" /\ attempt = i
            /\ (attemptLog[i] = "net" /\ i = max_retries) =>
                  pc = "except" /\ fetchStatus[Coin] = "raised"
            /\ attemptLog[i] = "http" =>
                  /\ i = Len(attemptLog)
                  /\ pc = "except"
                  /\ fetchStatus[Coin] = "raised"

\* two failures were retried and the network failure of the third attempt was raised
C3_Witness ==
    /\ pc = "except"
    /\ attemptLog = <<"net", "429", "net">>
    /\ fetchStatus[Coin] = "raised"

\* C4: in a run whose database was created, every configured asset's fetch is
\* attempted, whatever happened to the assets before it.
C4_EveryAssetAttempted ==
    (pc = "done" /\ created) => attempted = Coins

\* C5: a run in which the fetch or the store of some asset failed ends in
\* failure; a run that reports success fetched and stored every asset.
C5_FailureReported ==
    (pc = "done" /\ \E c \in Coins :
                       \/ fetchStatus[c] \in {"raised", "returned_none"}
                       \/ storeStatus[c] = "failed")
        => outcome = "failed"

\* C6: a run that has ended has closed every connection it opened.
C6_ConnectionsClosed ==
    pc = "done" => openConns = 0

\* C10: when the run has ended, the table of an asset whose store_data call
\* failed is as it was before the call, and the table of an asset stored
\* earlier in the run holds what that call committed.
C10_StoreAllOrNothing ==
    pc = "done" =>
        \A c \in Coins :
            /\ storeStatus[c] = "failed" => db[c] = preStore[c]
            /\ storeStatus[c] = "stored" => db[c] = postStore[c]

\* bitcoin was stored, then ethereum's store_data failed after one row of two
C10_Witness ==
    /\ pc = "done"
    /\ storeStatus["bitcoin"] = "stored"
    /\ db["bitcoin"] # {}
    /\ storeStatus["ethereum"] = "failed"
    /\ failedAfter = 1
    /\ preStore["ethereum"] = {}
    /\ db["ethereum"] = {}

Permute(df, p) == [i \in 1..Len(df) |-> df[p[i]]]

\* C7: every permutation of the rows given to clean_data yields the output
\* the given order yields.
C7_CleanOrderIndependent ==
    apc = "clean_eth" =>
        \A p \in Permutations(1..Len(btc_raw)) :
            clean_data(Permute(btc_raw, p)) = btc_df

\* C8: no row of the input with a non-positive price or volume is in the output
\* of clean_data, and every row of the output has price > 0 and volume > 0.
C8_OutputPositive ==
    apc = "clean_eth" =>
        /\ \A i \in 1..Len(btc_raw) :
              (NonPositive(btc_raw[i].price) \/ NonPositive(btc_raw[i].volume)) =>
                  \A j \in 1..Len(btc_df) : btc_df[j].date # btc_raw[i].date
        /\ \A j \in 1..Len(btc_df) :
              Positive(btc_df[j].price) /\ Positive(btc_df[j].volume)

\* C9: when a cleaned series is empty, analyze_data fails with an explicit
\* insufficient-data error, the run is aborted and no analysis is produced.
C9_InsufficientDataError ==
    (apc \in {"report", "failed", "done"} /\ araisedBy # "load_data"
        /\ (btc_df = <<>> \/ eth_df = <<>>)) =>
        /\ apc = "failed"
        /\ aerror = "InsufficientData"
        /\ ~analysis.done

====
